---- MODULE Spec2Model ----
(***************************************************************************)
(* COSA thermostat integration: the API client (api.py), the polling       *)
(* coordinator and the climate entity (climate.py), and the vendor server  *)
(* they talk to.                                                           *)
(*                                                                         *)
(* JSON scalars (tokens, device ids, modes, options, temperatures) are     *)
(* modelled by their literal text, because Python passes any value in any  *)
(* parameter position and the coordinator's call sites do exactly that.    *)
(* A JSON object is a function from key strings to values.                 *)
(***************************************************************************)
EXTENDS Integers, Sequences, FiniteSets, TLC

\* ------------------------------------------------------------------------
\* Bounds
\* ------------------------------------------------------------------------
\* number of times the vendor server may invalidate the issued tokens
MaxExpiries == 1

\* ------------------------------------------------------------------------
\* Program constants (const.py) and Python values
\* ------------------------------------------------------------------------
None == "None"
MODE_MANUAL == "manual"
MODE_AUTO == "auto"
MODE_SCHEDULE == "schedule"
OPTION_HOME == "home"
OPTION_SLEEP == "sleep"
OPTION_AWAY == "away"
OPTION_CUSTOM == "custom"
OPTION_FROZEN == "frozen"
\* the in-body error code that login treats as "bad credentials"
BadCredentialCode == 111

\* exception kinds
CosaAuthError == "CosaAuthError"
CosaAPIError == "CosaAPIError"
UpdateFailed == "UpdateFailed"
AttributeError == "AttributeError"
TimeoutError == "TimeoutError"
JSONDecodeError == "JSONDecodeError"

\* the configuration entry the coordinator is built from
EMAIL == "user@example.com"
PASSWORD == "secret"
ENDPOINT_ID == "dev1"
InitialToken == "T1"
FreshToken == "T2"

\* dict.get(k, default)
Get(d, k, default) == IF k \in DOMAIN d THEN d[k] ELSE default

\* Python truthiness of an optional string
Truthy(v) == v # None /\ v # ""

Raise(e) == [exc |-> e, val |-> None]
Return(v) == [exc |-> "none", val |-> v]

\* ------------------------------------------------------------------------
\* Requests built by the client (api.py)
\* ------------------------------------------------------------------------
_get_auth_headers(token) == [authtoken |-> token]

LoginRequest(email, password) ==
    [path |-> "login", headers |-> [authtoken |-> None],
     json |-> [email |-> email, password |-> password]]

GetEndpointsRequest(token) ==
    [path |-> "getEndpoints", headers |-> _get_auth_headers(token),
     json |-> <<>>]

GetEndpointRequest(token, endpoint_id) ==
    [path |-> "getEndpoint", headers |-> _get_auth_headers(token),
     json |-> [endpoint |-> endpoint_id]]

\* set_mode putting the option parameter in the payload whatever it is
SetModeRequest_AlwaysOption(token, endpoint_id, mode, option) ==
    [path |-> "setMode", headers |-> _get_auth_headers(token),
     json |-> [endpoint |-> endpoint_id, mode |-> mode, option |-> option]]

SetModeRequest(token, endpoint_id, mode, option) ==
    [path |-> "setMode", headers |-> _get_auth_headers(token),
     json |-> IF Truthy(option)
              THEN [endpoint |-> endpoint_id, mode |-> mode, option |-> option]
              ELSE [endpoint |-> endpoint_id, mode |-> mode]]

SetTargetTemperaturesRequest(token, endpoint_id, home, away, sleep, custom) ==
    [path |-> "setTargetTemperatures", headers |-> _get_auth_headers(token),
     json |-> [endpoint |-> endpoint_id,
               targetTemperatures |->
                   [home |-> home, away |-> away, sleep |-> sleep, custom |-> custom]]]

NoRequest == [path |-> "none", headers |-> [authtoken |-> None], json |-> <<>>]

\* ------------------------------------------------------------------------
\* The vendor server: issued tokens and device records
\* ------------------------------------------------------------------------
InitialDevice ==
    [id |-> ENDPOINT_ID, mode |-> MODE_SCHEDULE, option |-> OPTION_HOME,
     homeTemperature |-> "21", awayTemperature |-> "15",
     sleepTemperature |-> "19", customTemperature |-> "20",
     temperature |-> "23"]

InitialServer ==
    [valid |-> {InitialToken}, devices |-> [d \in {ENDPOINT_ID} |-> InitialDevice],
     expiries |-> 0]

\* what an HTTP exchange hands to the client: a transport failure, or a
\* status with a body that parses to a dict, parses to a list, or does not parse
Response(status, parse, body) ==
    [net |-> "ok", status |-> status, parse |-> parse, body |-> body]
TransportFailure(kind) ==
    [net |-> kind, status |-> 0, parse |-> "none", body |-> <<>>]

Authorized(req, srv) == req.headers.authtoken \in srv.valid
KnownDevice(req, srv) == req.json.endpoint \in DOMAIN srv.devices

\* the reply of a server that checks the token, addresses the device named by
\* the request's endpoint field and applies every request it accepts
ServerReply(req, srv) ==
    IF req.path = "login"
    THEN IF req.json.email = EMAIL /\ req.json.password = PASSWORD
         THEN Response(200, "dict", [ok |-> 1, authtoken |-> FreshToken])
         ELSE Response(200, "dict", [ok |-> 0, code |-> BadCredentialCode])
    ELSE IF ~Authorized(req, srv)
    THEN Response(401, "dict", [ok |-> 0, code |-> 401])
    ELSE IF req.path = "getEndpoints"
    THEN Response(200, "dict", [ok |-> 1, endpoints |-> <<srv.devices[ENDPOINT_ID]>>])
    ELSE IF ~KnownDevice(req, srv)
    THEN Response(200, "dict", [ok |-> 0, code |-> 404])
    ELSE IF req.path = "getEndpoint"
    THEN Response(200, "dict", [ok |-> 1, endpoint |-> srv.devices[req.json.endpoint]])
    ELSE Response(200, "dict", [ok |-> 1])

ServerApply(req, srv) ==
    IF req.path = "login"
    THEN IF req.json.email = EMAIL /\ req.json.password = PASSWORD
         THEN [srv EXCEPT !.valid = @ \cup {FreshToken}]
         ELSE srv
    ELSE IF ~Authorized(req, srv) \/ req.path = "getEndpoints" THEN srv
    ELSE IF ~KnownDevice(req, srv) THEN srv
    ELSE IF req.path = "setMode"
    THEN [srv EXCEPT !.devices[req.json.endpoint] =
             [@ EXCEPT !.mode = req.json.mode,
                       !.option = Get(req.json, "option", @)]]
    ELSE IF req.path = "setTargetTemperatures"
    THEN [srv EXCEPT !.devices[req.json.endpoint] =
             [@ EXCEPT !.homeTemperature = req.json.targetTemperatures.home,
                       !.awayTemperature = req.json.targetTemperatures.away,
                       !.sleepTemperature = req.json.targetTemperatures.sleep,
                       !.customTemperature = req.json.targetTemperatures.custom]]
    ELSE srv

\* ------------------------------------------------------------------------
\* Outcomes of one HTTP exchange, as the environment may choose them
\* ------------------------------------------------------------------------
BodyKinds == {"badjson", "badctype", "jsonlist", "ok0_111", "ok0_other",
              "ok0_nocode", "ok0_payload", "ok_empty", "payload"}
Statuses == {200, 401, 500}

Outcomes ==
    {[net |-> n, status |-> 0, kind |-> "none"] : n \in {"faithful", "client_error", "timeout"}}
    \cup {[net |-> "ok", status |-> s, kind |-> k] : s \in Statuses, k \in BodyKinds}

SamplePayload(path) ==
    IF path = "login" THEN [data |-> [authToken |-> FreshToken]]
    ELSE IF path = "getEndpoints" THEN [endpoints |-> <<InitialDevice>>]
    ELSE IF path = "getEndpoint" THEN [endpoint |-> InitialDevice]
    ELSE [success |-> "true"]

BodyOf(kind, path) ==
    IF kind = "ok0_111" THEN [ok |-> 0, code |-> BadCredentialCode]
    ELSE IF kind = "ok0_other" THEN [ok |-> 0, code |-> 500]
    ELSE IF kind = "ok0_nocode" THEN [ok |-> 0]
    ELSE IF kind = "ok0_payload" THEN [ok |-> 0] @@ SamplePayload(path)
    ELSE IF kind = "ok_empty" THEN [ok |-> 1]
    ELSE IF kind = "payload" THEN SamplePayload(path)
    ELSE <<>>

ParseOf(kind) ==
    IF kind = "badjson" THEN "error"
    ELSE IF kind = "badctype" THEN "ctype"
    ELSE IF kind = "jsonlist" THEN "list"
    ELSE "dict"

\* the response the client sees for request req under outcome o
Exchange(o, req, srv) ==
    IF o.net = "faithful" THEN ServerReply(req, srv)
    ELSE IF o.net = "ok" THEN Response(o.status, ParseOf(o.kind), BodyOf(o.kind, req.path))
    ELSE TransportFailure(o.net)

ServerAfter(o, req, srv) == IF o.net = "faithful" THEN ServerApply(req, srv) ELSE srv

\* ------------------------------------------------------------------------
\* The API client (api.py): each operation maps the outcome of its one HTTP
\* exchange to a return value or an exception
\* ------------------------------------------------------------------------
\* JSON values that are not strings (a number, null), by their literal text
NonStrings == {"12345", "null"}
IsStr(v) == v \notin NonStrings

token_keys == <<"authtoken", "authToken", "token", "accessToken", "access_token">>

RECURSIVE FirstStringUnder(_, _)
\* the value of the first key of token_keys[i..] that d maps to a string
FirstStringUnder(d, i) ==
    IF i > Len(token_keys) THEN None
    ELSE IF token_keys[i] \in DOMAIN d /\ IsStr(d[token_keys[i]]) THEN d[token_keys[i]]
    ELSE FirstStringUnder(d, i + 1)

\* _extract_token without the search under the data wrapper
_extract_token_TopLevelOnly(data) == FirstStringUnder(data, 1)

_extract_token(data) ==
    LET top == FirstStringUnder(data, 1)
    IN  IF top # None THEN top
        ELSE IF "data" \in DOMAIN data THEN FirstStringUnder(data["data"], 1)
        ELSE None

\* data.get("ok") == 0 on a dict
OkIsZero(r) == r.parse = "dict" /\ "ok" \in DOMAIN r.body /\ r.body["ok"] = 0

\* login examining the body of every 2xx response
login_AnySuccessStatus(r) ==
    IF r.net = "client_error" THEN Raise(CosaAPIError)
    ELSE IF r.net = "timeout" THEN Raise(TimeoutError)
    ELSE IF r.status = 401 THEN Raise(CosaAuthError)
    ELSE IF r.status \in 200..299
    THEN IF r.parse \in {"error", "ctype"} THEN Raise(CosaAPIError)
         ELSE IF OkIsZero(r)
         THEN IF "code" \in DOMAIN r.body /\ r.body["code"] = BadCredentialCode
              THEN Raise(CosaAuthError)
              ELSE Raise(CosaAPIError)
         ELSE LET token == _extract_token(r.body)
              IN  IF ~Truthy(token) THEN Raise(CosaAPIError) ELSE Return(token)
    ELSE Raise(CosaAPIError)

login(r) ==
    IF r.net = "client_error" THEN Raise(CosaAPIError)
    ELSE IF r.net = "timeout" THEN Raise(TimeoutError)
    ELSE IF r.status = 401 THEN Raise(CosaAuthError)
    ELSE IF r.status = 200
    THEN IF r.parse \in {"error", "ctype"} THEN Raise(CosaAPIError)
         ELSE IF OkIsZero(r)
         THEN IF "code" \in DOMAIN r.body /\ r.body["code"] = BadCredentialCode
              THEN Raise(CosaAuthError)
              ELSE Raise(CosaAPIError)
         ELSE LET token == _extract_token(r.body)
              IN  IF ~Truthy(token) THEN Raise(CosaAPIError) ELSE Return(token)
    ELSE Raise(CosaAPIError)

\* In the four authenticated operations response.json() is not guarded: an
\* undecodable body raises json's own error, a wrong content type raises
\* aiohttp's ContentTypeError (a ClientError), and .get on a JSON list
\* raises AttributeError.
\* get_endpoints treating a body without the endpoints field as a failure
get_endpoints_RequiresField(r) ==
    IF r.net = "client_error" THEN Raise(CosaAPIError)
    ELSE IF r.net = "timeout" THEN Raise(TimeoutError)
    ELSE IF r.status = 401 THEN Raise(CosaAuthError)
    ELSE IF r.status # 200 THEN Raise(CosaAPIError)
    ELSE IF r.parse = "error" THEN Raise(JSONDecodeError)
    ELSE IF r.parse = "ctype" THEN Raise(CosaAPIError)
    ELSE IF OkIsZero(r) THEN Raise(CosaAPIError)
    ELSE IF r.parse # "dict" THEN Raise(AttributeError)
    ELSE IF "endpoints" \notin DOMAIN r.body THEN Raise(CosaAPIError)
    ELSE Return(r.body["endpoints"])

get_endpoints(r) ==
    IF r.net = "client_error" THEN Raise(CosaAPIError)
    ELSE IF r.net = "timeout" THEN Raise(TimeoutError)
    ELSE IF r.status = 401 THEN Raise(CosaAuthError)
    ELSE IF r.status # 200 THEN Raise(CosaAPIError)
    ELSE IF r.parse = "error" THEN Raise(JSONDecodeError)
    ELSE IF r.parse = "ctype" THEN Raise(CosaAPIError)
    ELSE IF OkIsZero(r) THEN Raise(CosaAPIError)
    ELSE IF r.parse # "dict" THEN Raise(AttributeError)
    ELSE Return(Get(r.body, "endpoints", <<>>))

get_endpoint_detail(r) ==
    IF r.net = "client_error" THEN Raise(CosaAPIError)
    ELSE IF r.net = "timeout" THEN Raise(TimeoutError)
    ELSE IF r.status = 401 THEN Raise(CosaAuthError)
    ELSE IF r.status # 200 THEN Raise(CosaAPIError)
    ELSE IF r.parse = "error" THEN Raise(JSONDecodeError)
    ELSE IF r.parse = "ctype" THEN Raise(CosaAPIError)
    ELSE IF OkIsZero(r) THEN Raise(CosaAPIError)
    ELSE IF r.parse # "dict" THEN Raise(AttributeError)
    ELSE Return(Get(r.body, "endpoint", r.body))

\* set_mode with the generic status check placed before the 401 check
set_mode_StatusBeforeAuth(r) ==
    IF r.net = "client_error" THEN Raise(CosaAPIError)
    ELSE IF r.net = "timeout" THEN Raise(TimeoutError)
    ELSE IF r.status # 200 THEN Raise(CosaAPIError)
    ELSE IF r.status = 401 THEN Raise(CosaAuthError)
    ELSE IF r.parse = "error" THEN Raise(JSONDecodeError)
    ELSE IF r.parse = "ctype" THEN Raise(CosaAPIError)
    ELSE IF OkIsZero(r) THEN Raise(CosaAPIError)
    ELSE Return(TRUE)

set_mode(r) ==
    IF r.net = "client_error" THEN Raise(CosaAPIError)
    ELSE IF r.net = "timeout" THEN Raise(TimeoutError)
    ELSE IF r.status = 401 THEN Raise(CosaAuthError)
    ELSE IF r.status # 200 THEN Raise(CosaAPIError)
    ELSE IF r.parse = "error" THEN Raise(JSONDecodeError)
    ELSE IF r.parse = "ctype" THEN Raise(CosaAPIError)
    ELSE IF OkIsZero(r) THEN Raise(CosaAPIError)
    ELSE Return(TRUE)

\* set_target_temperatures without the check of the body's ok flag
set_target_temperatures_TrustsStatus(r) ==
    IF r.net = "client_error" THEN Raise(CosaAPIError)
    ELSE IF r.net = "timeout" THEN Raise(TimeoutError)
    ELSE IF r.status = 401 THEN Raise(CosaAuthError)
    ELSE IF r.status # 200 THEN Raise(CosaAPIError)
    ELSE IF r.parse = "error" THEN Raise(JSONDecodeError)
    ELSE IF r.parse = "ctype" THEN Raise(CosaAPIError)
    ELSE Return(TRUE)

set_target_temperatures(r) ==
    IF r.net = "client_error" THEN Raise(CosaAPIError)
    ELSE IF r.net = "timeout" THEN Raise(TimeoutError)
    ELSE IF r.status = 401 THEN Raise(CosaAuthError)
    ELSE IF r.status # 200 THEN Raise(CosaAPIError)
    ELSE IF r.parse = "error" THEN Raise(JSONDecodeError)
    ELSE IF r.parse = "ctype" THEN Raise(CosaAPIError)
    ELSE IF OkIsZero(r) THEN Raise(CosaAPIError)
    ELSE Return(TRUE)

\* ------------------------------------------------------------------------
\* Normalization (api.py, extract_endpoint_state).  A number is written as its
\* numeral, 20.0 as "20"; False as "False"
\* ------------------------------------------------------------------------
DefaultTargetTemperatures ==
    [home |-> "20", away |-> "15", sleep |-> "18", custom |-> "20"]

\* the detailed branch taking the list branch's values even when the record
\* carries its own setpoints
target_temps_IgnoresRecord(endpoint) == DefaultTargetTemperatures

\* lines 362-378: the four setpoints of the record, or the fixed ones
target_temps(endpoint) ==
    IF "homeTemperature" \in DOMAIN endpoint
    THEN [home |-> Get(endpoint, "homeTemperature", "20"),
          away |-> Get(endpoint, "awayTemperature", "15"),
          sleep |-> Get(endpoint, "sleepTemperature", "18"),
          custom |-> Get(endpoint, "customTemperature", "20")]
    ELSE DefaultTargetTemperatures

\* the current target taken from the setpoints even when the record carries
\* targetTemperature
current_target_IgnoresExplicit(endpoint) ==
    Get(target_temps(endpoint), Get(endpoint, "option", OPTION_HOME), "20")

\* lines 380-383
current_target(endpoint) ==
    IF Get(endpoint, "targetTemperature", None) = None
    THEN Get(target_temps(endpoint), Get(endpoint, "option", OPTION_HOME), "20")
    ELSE endpoint["targetTemperature"]

\* extract_endpoint_state reading name, isConnected and combiState without
\* defaults
extract_endpoint_state_NoDefaults(endpoint) ==
    [endpoint_id |-> IF Truthy(Get(endpoint, "id", None)) THEN endpoint["id"]
                     ELSE Get(endpoint, "_id", None),
     name |-> Get(endpoint, "name", None),
     temperature |-> Get(endpoint, "temperature", None),
     humidity |-> Get(endpoint, "humidity", None),
     target_temperature |-> current_target(endpoint),
     mode |-> Get(endpoint, "mode", MODE_MANUAL),
     option |-> Get(endpoint, "option", OPTION_HOME),
     combi_state |-> Get(endpoint, "combiState", None),
     is_connected |-> Get(endpoint, "isConnected", None),
     operation_mode |-> Get(endpoint, "operationMode", "heating"),
     target_temperatures |-> target_temps(endpoint)]

extract_endpoint_state(endpoint) ==
    [endpoint_id |-> IF Truthy(Get(endpoint, "id", None)) THEN endpoint["id"]
                     ELSE Get(endpoint, "_id", None),
     name |-> Get(endpoint, "name", "COSA Termostat"),
     temperature |-> Get(endpoint, "temperature", None),
     humidity |-> Get(endpoint, "humidity", None),
     target_temperature |-> current_target(endpoint),
     mode |-> Get(endpoint, "mode", MODE_MANUAL),
     option |-> Get(endpoint, "option", OPTION_HOME),
     combi_state |-> Get(endpoint, "combiState", "off"),
     is_connected |-> Get(endpoint, "isConnected", "False"),
     operation_mode |-> Get(endpoint, "operationMode", "heating"),
     target_temperatures |-> target_temps(endpoint)]

\* ------------------------------------------------------------------------
\* The coordinator (climate.py): control decisions of its three coroutines
\* after each awaited client call
\* ------------------------------------------------------------------------
\* login() returns the token, a str, and str has no attribute "get"
LoginResultHasGet == FALSE

StepReturn == [do |-> "return", exc |-> "none", token |-> None]
StepRaise(e) == [do |-> "raise", exc |-> e, token |-> None]
StepLogin == [do |-> "login", exc |-> "none", token |-> None]
StepRetry(tok) == [do |-> "retry", exc |-> "none", token |-> tok]
StepRefresh == [do |-> "refresh", exc |-> "none", token |-> None]

\* _async_update_data with "except CosaAPIError" placed first: CosaAuthError is a
\* CosaAPIError, so the re-login clause is never reached
UpdateAfterDetail_NoRelogin(res, place) ==
    IF res.exc = "none"
    THEN IF Truthy(place) THEN StepRaise(AttributeError) ELSE StepReturn
    ELSE IF res.exc \in {CosaAuthError, CosaAPIError} THEN StepRaise(UpdateFailed)
    ELSE StepRaise(res.exc)

\* _async_update_data with the re-login clause catching CosaAPIError
UpdateAfterDetail_ReloginOnAnyError(res, place) ==
    IF res.exc = "none"
    THEN IF Truthy(place) THEN StepRaise(AttributeError) ELSE StepReturn
    ELSE IF res.exc \in {CosaAuthError, CosaAPIError} THEN StepLogin
    ELSE StepRaise(res.exc)

\* _async_update_data after the first get_endpoint_detail (lines 71-81 and the
\* two except clauses); CosaAPI has no get_forecast method
UpdateAfterDetail(res, place) ==
    IF res.exc = "none"
    THEN IF Truthy(place) THEN StepRaise(AttributeError) ELSE StepReturn
    ELSE IF res.exc = CosaAuthError THEN StepLogin
    ELSE IF res.exc = CosaAPIError THEN StepRaise(UpdateFailed)
    ELSE StepRaise(res.exc)

\* _async_update_data storing login_result.get("token") of a result that has
\* no such key
UpdateAfterLogin_StoresMissingToken(res) ==
    IF res.exc # "none" THEN StepRaise(res.exc)
    ELSE StepRetry(None)

\* _async_update_data after the login of the except clause (lines 84-89); an
\* exception raised inside an except clause is not caught by its siblings
UpdateAfterLogin(res) ==
    IF res.exc # "none" THEN StepRaise(res.exc)
    ELSE IF ~LoginResultHasGet THEN StepRaise(AttributeError)
    ELSE IF Truthy(Get(res.val, "ok", None)) THEN StepRetry(Get(res.val, "token", None))
    ELSE StepRaise(UpdateFailed)

\* _async_update_data after the re-issued get_endpoint_detail (lines 87-88)
UpdateAfterRetry(res) ==
    IF res.exc = "none" THEN StepReturn ELSE StepRaise(res.exc)

\* a command that catches CosaAPIError and returns
CommandAfterCall_SwallowsApiError(res) ==
    IF res.exc = "none" THEN StepRefresh
    ELSE IF res.exc = CosaAuthError THEN StepLogin
    ELSE IF res.exc = CosaAPIError THEN StepReturn
    ELSE StepRaise(res.exc)

\* a command that does not request a refresh after its call succeeded
CommandAfterCall_NoRefresh(res) ==
    IF res.exc = "none" THEN StepReturn
    ELSE IF res.exc = CosaAuthError THEN StepLogin
    ELSE StepRaise(res.exc)

\* async_set_mode / async_set_temperatures after the first mutating call
\* (lines 96-98, 107-109): only CosaAuthError is caught
CommandAfterCall(res) ==
    IF res.exc = "none" THEN StepRefresh
    ELSE IF res.exc = CosaAuthError THEN StepLogin
    ELSE StepRaise(res.exc)

\* a command that logs in again whenever its login fails
CommandAfterLogin_LoginUntilSuccess(res) ==
    IF res.exc # "none" THEN StepLogin
    ELSE IF ~LoginResultHasGet THEN StepRaise(AttributeError)
    ELSE IF Truthy(Get(res.val, "ok", None)) THEN StepRetry(Get(res.val, "token", None))
    ELSE StepReturn

\* after the login of the except clause (lines 99-101, 110-112)
CommandAfterLogin(res) ==
    IF res.exc # "none" THEN StepRaise(res.exc)
    ELSE IF ~LoginResultHasGet THEN StepRaise(AttributeError)
    ELSE IF Truthy(Get(res.val, "ok", None)) THEN StepRetry(Get(res.val, "token", None))
    ELSE StepReturn

\* after the re-issued mutating call (lines 102-103, 113-114)
CommandAfterRetry(res) ==
    IF res.exc = "none" THEN StepRefresh ELSE StepRaise(res.exc)

\* ------------------------------------------------------------------------
\* State
\* ------------------------------------------------------------------------
VARIABLES
    token,      \* CosaCoordinator._token (the caller's token when the client is used directly)
    place_id,   \* CosaCoordinator._place_id
    data,       \* DataUpdateCoordinator.data, the snapshot the entity reads
    server,     \* the vendor server
    faithful,   \* every exchange so far was answered by ServerReply and applied
    pc,         \* per task: the await the coroutine is suspended at
    req,        \* per task: the HTTP request in flight
    rf,         \* per task: the current or last run of _async_update_data
    cf,         \* the current or last coordinator command
    lastCall,   \* the last direct client call and its result
    probe       \* the last application of a function to a drawn input

vars == <<token, place_id, data, server, faithful, pc, req, rf, cf, lastCall, probe>>

Tasks == {"tick", "cmd"}

NoData == [has |-> FALSE, endpoint |-> <<>>]
NoRefresh ==
    [logins |-> 0, details |-> 0, sawAuth |-> FALSE, sawApi |-> FALSE,
     loginExc |-> "unset", loginToken |-> None, token0 |-> None, afterCmd |-> FALSE,
     outcome |-> "none"]
NoArgs == <<None, None, None, None>>
NoCommand ==
    [kind |-> "none", args |-> NoArgs, logins |-> 0, calls |-> 0, refreshes |-> 0,
     accepted |-> FALSE, loginExc |-> "unset", loginToken |-> None, outcome |-> "none"]
NoCall == [op |-> "none", outcome |-> [net |-> "none", status |-> 0, kind |-> "none"],
           exc |-> "none", val |-> None, args |-> NoArgs, req |-> NoRequest]
NoProbe == [fn |-> "none"]

PlaceIds == {None, "place1"}

Init ==
    /\ token = InitialToken
    /\ place_id \in PlaceIds
    /\ data = NoData
    /\ server = InitialServer
    /\ faithful = TRUE
    /\ pc = [t \in Tasks |-> "idle"]
    /\ req = [t \in Tasks |-> NoRequest]
    /\ rf = [t \in Tasks |-> NoRefresh]
    /\ cf = NoCommand
    /\ lastCall = NoCall
    /\ probe = NoProbe

\* ------------------------------------------------------------------------
\* The entity's view of the snapshot (climate.py, CosaClimate)
\* ------------------------------------------------------------------------
\* lines 145-149: {} while the coordinator has no data
_endpoint == IF data.has THEN data.endpoint ELSE <<>>

current_temperature == Get(_endpoint, "temperature", None)

target_temperature == Get(_endpoint, "targetTemperature", None)

PRESET_HOME == "home"
PRESET_SLEEP == "sleep"
PRESET_AWAY == "away"
PRESET_CUSTOM == "custom"
PRESET_AUTO == "auto"
PRESET_SCHEDULE == "schedule"
_attr_preset_modes ==
    {PRESET_HOME, PRESET_SLEEP, PRESET_AWAY, PRESET_CUSTOM, PRESET_AUTO, PRESET_SCHEDULE}

HVACMode_OFF == "off"
HVACMode_HEAT == "heat"

\* hvac_mode looking at the option alone
hvac_mode_IgnoresMode ==
    IF Get(_endpoint, "option", None) = OPTION_FROZEN THEN HVACMode_OFF ELSE HVACMode_HEAT

\* lines 170-177
hvac_mode ==
    LET mode == Get(_endpoint, "mode", None)
    IN  IF mode = MODE_MANUAL
        THEN IF Get(_endpoint, "option", None) = OPTION_FROZEN
             THEN HVACMode_OFF
             ELSE HVACMode_HEAT
        ELSE HVACMode_HEAT

\* preset_mode reporting the option whenever the snapshot has one
preset_mode_OptionFirst ==
    LET mode == Get(_endpoint, "mode", None)
        option == Get(_endpoint, "option", None)
    IN  IF option # None THEN option
        ELSE IF mode = MODE_SCHEDULE THEN PRESET_SCHEDULE
        ELSE IF mode = MODE_AUTO THEN PRESET_AUTO
        ELSE option

\* lines 186-197
preset_mode ==
    LET mode == Get(_endpoint, "mode", None)
        option == Get(_endpoint, "option", None)
    IN  IF mode = MODE_SCHEDULE THEN PRESET_SCHEDULE
        ELSE IF mode = MODE_AUTO THEN PRESET_AUTO
        ELSE IF mode = MODE_MANUAL THEN option
        ELSE option

\* ------------------------------------------------------------------------
\* Direct use of the client (as the configuration flow uses it)
\* ------------------------------------------------------------------------
ClientOps == {"login", "get_endpoints", "get_endpoint_detail", "set_mode",
              "set_target_temperatures"}
Passwords == {PASSWORD, "wrong"}
\* mode/option pairs the entity asks for
ModeArgs == {<<MODE_MANUAL, OPTION_FROZEN>>, <<MODE_SCHEDULE, None>>}
\* home, away, sleep, custom
TemperatureArgs == {<<"22", "16", "18", "20">>}

\* the argument tuples each operation is tried with
ClientArgs(op) ==
    IF op = "login" THEN {<<EMAIL, pw, None, None>> : pw \in Passwords}
    ELSE IF op = "set_mode" THEN {<<m[1], m[2], None, None>> : m \in ModeArgs}
    ELSE IF op = "set_target_temperatures" THEN TemperatureArgs
    ELSE {NoArgs}

ClientRequest(op, a) ==
    IF op = "login" THEN LoginRequest(a[1], a[2])
    ELSE IF op = "get_endpoints" THEN GetEndpointsRequest(token)
    ELSE IF op = "get_endpoint_detail" THEN GetEndpointRequest(token, ENDPOINT_ID)
    ELSE IF op = "set_mode" THEN SetModeRequest(token, ENDPOINT_ID, a[1], a[2])
    ELSE SetTargetTemperaturesRequest(token, ENDPOINT_ID, a[1], a[2], a[3], a[4])

ClientResult(op, r) ==
    IF op = "login" THEN login(r)
    ELSE IF op = "get_endpoints" THEN get_endpoints(r)
    ELSE IF op = "get_endpoint_detail" THEN get_endpoint_detail(r)
    ELSE IF op = "set_mode" THEN set_mode(r)
    ELSE set_target_temperatures(r)

\* one client operation called with its parameters in their declared order
ClientCall(op, o, a) ==
    /\ LET rq == ClientRequest(op, a)
           r == Exchange(o, rq, server)
           res == ClientResult(op, r)
       IN  /\ server' = ServerAfter(o, rq, server)
           /\ faithful' = (faithful /\ o.net = "faithful")
           /\ lastCall' = [op |-> op, outcome |-> o, exc |-> res.exc, val |-> res.val,
                           args |-> a, req |-> rq]
           /\ token' = IF op = "login" /\ res.exc = "none" THEN res.val ELSE token
    /\ UNCHANGED <<place_id, data, pc, req, rf, cf, probe>>

\* ------------------------------------------------------------------------
\* The coordinator's coroutines, one step per awaited HTTP exchange
\* ------------------------------------------------------------------------
\* outcomes the environment chooses from for the coordinator's exchanges
CoordinatorOutcomes ==
    {o \in Outcomes :
        \/ o.net # "ok"
        \/ o.status = 401 /\ o.kind = "ok0_other"
        \/ o.status = 500 /\ o.kind = "badjson"
        \/ o.status = 200 /\ o.kind \in {"badjson", "jsonlist", "ok0_111", "ok0_other",
                                        "ok_empty", "payload"}}

\* line 71 / line 87: get_endpoint_detail(token, endpoint_id) is called with
\* (self._endpoint_id, self._token)
DetailRequest(tok) == GetEndpointRequest(ENDPOINT_ID, tok)

\* lines 96/102 and 107/113: set_mode(token, endpoint_id, mode, option) is
\* called with (self._endpoint_id, mode, option, self._token), and
\* set_target_temperatures(token, endpoint_id, home, away, sleep, custom)
\* with (self._endpoint_id, home, away, sleep, custom, self._token)
CommandRequest(kind, args, tok) ==
    IF kind = "set_mode"
    THEN SetModeRequest(ENDPOINT_ID, args[1], args[2], tok)
    ELSE SetTargetTemperaturesRequest(ENDPOINT_ID, args[1], args[2], args[3], args[4], tok)

RunningRefresh(tok) ==
    [NoRefresh EXCEPT !.details = 1, !.token0 = tok, !.outcome = "running"]

Snapshot(detail) == [has |-> TRUE, endpoint |-> detail]

\* the run of _async_update_data in task t ends; the host keeps the returned
\* snapshot, and a refresh requested by a command lets the command return
FinishRefresh(t, cur, outcome, detail) ==
    /\ rf' = [rf EXCEPT ![t] = [cur EXCEPT !.outcome = outcome]]
    /\ data' = IF outcome = "returned" THEN Snapshot(detail) ELSE data
    /\ pc' = [pc EXCEPT ![t] = "idle"]
    /\ req' = [req EXCEPT ![t] = NoRequest]
    /\ cf' = IF t = "cmd" THEN [cf EXCEPT !.outcome = "returned"] ELSE cf

\* the host's timer (or async_setup_entry's first refresh) calls
\* _async_update_data; afterCmd records that a command has ended before
CommandEnded == cf.outcome \notin {"none", "running"}

Tick ==
    /\ pc["tick"] = "idle"
    /\ pc' = [pc EXCEPT !["tick"] = "detail"]
    /\ req' = [req EXCEPT !["tick"] = DetailRequest(token)]
    /\ rf' = [rf EXCEPT !["tick"] = [RunningRefresh(token) EXCEPT !.afterCmd = CommandEnded]]
    /\ UNCHANGED <<token, place_id, data, server, faithful, cf, lastCall, probe>>

\* the response to get_endpoint_detail arrives (first call or re-issued call)
DetailResponse(t, o) ==
    /\ pc[t] \in {"detail", "retry"}
    /\ LET r == Exchange(o, req[t], server)
           res == get_endpoint_detail(r)
           first == pc[t] = "detail"
           step == IF first THEN UpdateAfterDetail(res, place_id) ELSE UpdateAfterRetry(res)
           cur == [rf[t] EXCEPT !.sawAuth = @ \/ (first /\ res.exc = CosaAuthError),
                                !.sawApi = @ \/ (first /\ res.exc = CosaAPIError)]
       IN  /\ server' = ServerAfter(o, req[t], server)
           /\ faithful' = (faithful /\ o.net = "faithful")
           /\ IF step.do = "login"
              THEN /\ pc' = [pc EXCEPT ![t] = "relogin"]
                   /\ req' = [req EXCEPT ![t] = LoginRequest(EMAIL, PASSWORD)]
                   /\ rf' = [rf EXCEPT ![t] = [cur EXCEPT !.logins = @ + 1]]
                   /\ UNCHANGED <<data, cf>>
              ELSE FinishRefresh(t, cur, IF step.do = "return" THEN "returned" ELSE step.exc,
                                 res.val)
    /\ UNCHANGED <<token, place_id, lastCall, probe>>

\* the response to the login of _async_update_data's except clause arrives
ReloginResponse(t, o) ==
    /\ pc[t] = "relogin"
    /\ LET r == Exchange(o, req[t], server)
           res == login(r)
           step == UpdateAfterLogin(res)
           cur == [rf[t] EXCEPT !.loginExc = res.exc,
                                !.loginToken = IF res.exc = "none" THEN res.val ELSE None]
       IN  /\ server' = ServerAfter(o, req[t], server)
           /\ faithful' = (faithful /\ o.net = "faithful")
           /\ IF step.do = "retry"
              THEN /\ token' = step.token
                   /\ pc' = [pc EXCEPT ![t] = "retry"]
                   /\ req' = [req EXCEPT ![t] = DetailRequest(step.token)]
                   /\ rf' = [rf EXCEPT ![t] = [cur EXCEPT !.details = @ + 1]]
                   /\ UNCHANGED <<data, cf>>
              ELSE /\ token' = token
                   /\ FinishRefresh(t, cur, step.exc, <<>>)
    /\ UNCHANGED <<place_id, lastCall, probe>>

\* a coordinator command ends without having requested a refresh
FinishCommand(cur, outcome) ==
    /\ cf' = [cur EXCEPT !.outcome = outcome]
    /\ pc' = [pc EXCEPT !["cmd"] = "idle"]
    /\ req' = [req EXCEPT !["cmd"] = NoRequest]
    /\ UNCHANGED <<rf, data>>

\* a command starts; a scheduled refresh that is under way no longer counts
\* as following the previous command undisturbed
StartCommand(kind, args) ==
    /\ pc["cmd"] = "idle"
    /\ pc' = [pc EXCEPT !["cmd"] = "call"]
    /\ req' = [req EXCEPT !["cmd"] = CommandRequest(kind, args, token)]
    /\ cf' = [NoCommand EXCEPT !.kind = kind, !.args = args, !.calls = 1,
                               !.outcome = "running"]
    /\ rf' = [rf EXCEPT !["cmd"] = NoRefresh, !["tick"].afterCmd = FALSE]
    /\ UNCHANGED <<token, place_id, data, server, faithful, lastCall, probe>>

\* CosaCoordinator.async_set_mode is called by the entity
async_set_mode(mode, option) == StartCommand("set_mode", <<mode, option, None, None>>)

\* CosaCoordinator.async_set_temperatures is called by the entity
async_set_temperatures(home, away, sleep, custom) ==
    StartCommand("set_temperatures", <<home, away, sleep, custom>>)

\* temperatures the host asks the entity for
EntityTemperatures == {"24"}

\* CosaClimate.async_set_temperature, lines 218-234: the four values handed
\* to the coordinator
EntitySetpoints(endpoint, temperature) ==
    LET option == Get(endpoint, "option", OPTION_HOME)
        home == Get(endpoint, "homeTemperature", "21")
        away == Get(endpoint, "awayTemperature", "15")
        sleep == Get(endpoint, "sleepTemperature", "19")
        custom == Get(endpoint, "customTemperature", "20")
    IN  IF option = OPTION_HOME THEN <<temperature, away, sleep, custom>>
        ELSE IF option = OPTION_AWAY THEN <<home, temperature, sleep, custom>>
        ELSE IF option = OPTION_SLEEP THEN <<home, away, temperature, custom>>
        ELSE IF option = OPTION_CUSTOM THEN <<home, away, sleep, temperature>>
        ELSE <<temperature, away, sleep, custom>>

\* CosaClimate.async_set_temperature is called by the host with a temperature
\* (without one it returns at once)
async_set_temperature(temperature) ==
    /\ temperature # None
    /\ LET a == EntitySetpoints(_endpoint, temperature)
       IN  async_set_temperatures(a[1], a[2], a[3], a[4])

\* the response to set_mode / set_target_temperatures arrives (first call or
\* re-issued call); async_request_refresh runs _async_update_data in the
\* command's task
CommandResponse(o) ==
    /\ pc["cmd"] \in {"call", "cmd_retry"}
    /\ LET r == Exchange(o, req["cmd"], server)
           res == IF cf.kind = "set_mode" THEN set_mode(r) ELSE set_target_temperatures(r)
           step == IF pc["cmd"] = "call" THEN CommandAfterCall(res) ELSE CommandAfterRetry(res)
           cur == [cf EXCEPT !.accepted = @ \/ res.exc = "none"]
       IN  /\ server' = ServerAfter(o, req["cmd"], server)
           /\ faithful' = (faithful /\ o.net = "faithful")
           /\ IF step.do = "refresh"
              THEN /\ cf' = [cur EXCEPT !.refreshes = @ + 1]
                   /\ pc' = [pc EXCEPT !["cmd"] = "detail"]
                   /\ req' = [req EXCEPT !["cmd"] = DetailRequest(token)]
                   /\ rf' = [rf EXCEPT !["cmd"] = RunningRefresh(token)]
                   /\ UNCHANGED data
              ELSE IF step.do = "login"
              THEN /\ cf' = [cur EXCEPT !.logins = @ + 1]
                   /\ pc' = [pc EXCEPT !["cmd"] = "cmd_relogin"]
                   /\ req' = [req EXCEPT !["cmd"] = LoginRequest(EMAIL, PASSWORD)]
                   /\ UNCHANGED <<rf, data>>
              ELSE FinishCommand(cur, IF step.do = "return" THEN "returned" ELSE step.exc)
    /\ UNCHANGED <<token, place_id, lastCall, probe>>

\* the response to the login of a command's except clause arrives
CommandReloginResponse(o) ==
    /\ pc["cmd"] = "cmd_relogin"
    /\ LET r == Exchange(o, req["cmd"], server)
           res == login(r)
           step == CommandAfterLogin(res)
           cur == [cf EXCEPT !.loginExc = res.exc,
                             !.loginToken = IF res.exc = "none" THEN res.val ELSE None]
       IN  /\ server' = ServerAfter(o, req["cmd"], server)
           /\ faithful' = (faithful /\ o.net = "faithful")
           /\ IF step.do = "retry"
              THEN /\ token' = step.token
                   /\ cf' = [cur EXCEPT !.calls = @ + 1]
                   /\ pc' = [pc EXCEPT !["cmd"] = "cmd_retry"]
                   /\ req' = [req EXCEPT !["cmd"] = CommandRequest(cf.kind, cf.args, step.token)]
                   /\ UNCHANGED <<rf, data>>
              ELSE IF step.do = "login"
              THEN /\ token' = token
                   /\ cf' = [cur EXCEPT !.logins = @ + 1]
                   /\ UNCHANGED <<pc, req, rf, data>>
              ELSE /\ token' = token
                   /\ FinishCommand(cur, IF step.do = "return" THEN "returned" ELSE step.exc)
    /\ UNCHANGED <<place_id, lastCall, probe>>

\* the vendor server invalidates the tokens it has issued
ExpireTokens ==
    /\ server.expiries < MaxExpiries
    /\ server' = [server EXCEPT !.valid = {}, !.expiries = @ + 1]
    /\ UNCHANGED <<token, place_id, data, faithful, pc, req, rf, cf, lastCall, probe>>

Next ==
    \/ Tick
    \/ \E t \in Tasks, o \in CoordinatorOutcomes : DetailResponse(t, o)
    \/ \E t \in Tasks, o \in CoordinatorOutcomes : ReloginResponse(t, o)
    \/ \E m \in ModeArgs : async_set_mode(m[1], m[2])
    \/ \E tt \in TemperatureArgs : async_set_temperatures(tt[1], tt[2], tt[3], tt[4])
    \/ \E temperature \in EntityTemperatures : async_set_temperature(temperature)
    \/ \E o \in CoordinatorOutcomes : CommandResponse(o)
    \/ \E o \in CoordinatorOutcomes : CommandReloginResponse(o)
    \/ ExpireTokens

Spec == Init /\ [][Next]_vars

\* the client on its own: every operation against every outcome
NextClient ==
    \/ \E op \in ClientOps, o \in Outcomes : \E a \in ClientArgs(op) : ClientCall(op, o, a)
    \/ ExpireTokens

SpecClient == Init /\ [][NextClient]_vars

\* ------------------------------------------------------------------------
\* login and extract_endpoint_state applied to inputs drawn from bounded sets
\* ------------------------------------------------------------------------
Absent == "absent"
\* the one-key dict {k: v}, or {} when the key is left out
Field(k, v) == IF v = Absent THEN <<>> ELSE [x \in {k} |-> v]

TokenKeys == {token_keys[i] : i \in 1..Len(token_keys)}
\* values a login response may hold under a token field: a token, the empty
\* string, a number
TokenValues == {FreshToken, "", "12345"}
\* the ok flag of a successful body is left out or 1
OkFlags == {<<>>, [ok |-> 1]}

\* login responses that carry one token field, at top level or under data,
\* with or without a number under another supported field at top level
TokenBodies ==
    {ok @@ Field(k, v) : ok \in OkFlags, k \in TokenKeys, v \in TokenValues}
    \cup {ok @@ [data |-> Field(k, v)] :
             ok \in OkFlags, k \in TokenKeys, v \in TokenValues}
    \cup {[token |-> "12345", data |-> Field(k, FreshToken)] : k \in TokenKeys}

LoginStatuses == {200, 201, 401, 500}

LoginResponses ==
    {Response(st, ParseOf(kind), BodyOf(kind, "login")) :
         st \in LoginStatuses, kind \in BodyKinds}
    \cup {Response(st, "dict", b) : st \in LoginStatuses, b \in TokenBodies}

\* login receives the response r
LoginResponse(r) ==
    /\ LET res == login(r)
       IN  probe' = [fn |-> "login", r |-> r, exc |-> res.exc, val |-> res.val]
    /\ UNCHANGED <<token, place_id, data, server, faithful, pc, req, rf, cf, lastCall>>

\* vendor device records: the option, the explicit target and the setpoint
\* fields are each present or not
CombiStates == {Absent, "on", "off"}
Options ==
    {Absent, OPTION_HOME, OPTION_AWAY, OPTION_SLEEP, OPTION_CUSTOM, OPTION_FROZEN, "eco"}
Targets == {Absent, None, "25"}
Setpoints ==
    {<<>>,
     [homeTemperature |-> "21"],
     [homeTemperature |-> "21", awayTemperature |-> "16",
      sleepTemperature |-> "19", customTemperature |-> "22"]}
EndpointRecords ==
    {[id |-> ENDPOINT_ID, temperature |-> "23"]
         @@ Field("option", o) @@ Field("targetTemperature", t) @@ sp :
         o \in Options, t \in Targets, sp \in Setpoints}

\* vendor device records in which the name, the connectivity flag and the
\* relay state are each present or not
DeviceInfoRecords ==
    {[id |-> ENDPOINT_ID, temperature |-> "23"]
         @@ Field("name", n) @@ Field("isConnected", c) @@ Field("combiState", s) :
         n \in {Absent, "Evim"}, c \in {Absent, "True", "False"}, s \in CombiStates}

\* extract_endpoint_state is applied to the record endpoint
Normalize(endpoint) ==
    /\ probe' = [fn |-> "extract_endpoint_state", endpoint |-> endpoint,
                 out |-> extract_endpoint_state(endpoint)]
    /\ UNCHANGED <<token, place_id, data, server, faithful, pc, req, rf, cf, lastCall>>

\* device records as a refresh stores them: the mode, the option and the
\* relay state are each present or not
Modes == {Absent, MODE_MANUAL, MODE_AUTO, MODE_SCHEDULE, "eco"}
SnapshotRecords ==
    {[id |-> ENDPOINT_ID, temperature |-> "23"]
         @@ Field("mode", m) @@ Field("option", o) @@ Field("combiState", c) :
         m \in Modes, o \in Options, c \in CombiStates}

\* one run of _async_update_data in which get_endpoint_detail returns the
\* record endpoint: the host stores the snapshot when the run returns
RefreshReturns(endpoint) ==
    /\ data' = IF UpdateAfterDetail(Return(endpoint), place_id).do = "return"
               THEN Snapshot(endpoint)
               ELSE data
    /\ UNCHANGED <<token, place_id, server, faithful, pc, req, rf, cf, lastCall, probe>>

\* the session argument of the constructor: the host's shared session, or
\* none given
SessionArgs == {"host", Absent}
TypeError == "TypeError"

\* CosaAPI.__init__ (lines 51-53): session is a required parameter and the
\* only attribute set
CosaAPI(session) ==
    IF session = Absent THEN Raise(TypeError) ELSE Return([_session |-> session])

\* CosaAPI defines no close method
close(client) == Raise(AttributeError)

\* a client is constructed and then closed; closed holds the sessions that
\* were closed on the way
ConstructAndClose(session) ==
    /\ LET made == CosaAPI(session)
       IN  probe' = [fn |-> "close", session |-> session,
                     attrs |-> IF made.exc = "none" THEN DOMAIN made.val ELSE {},
                     exc |-> IF made.exc = "none" THEN close(made.val).exc ELSE made.exc,
                     closed |-> {}]
    /\ UNCHANGED <<token, place_id, data, server, faithful, pc, req, rf, cf, lastCall>>

NextFunctions ==
    \/ \E r \in LoginResponses : LoginResponse(r)
    \/ \E e \in EndpointRecords \cup DeviceInfoRecords : Normalize(e)
    \/ \E session \in SessionArgs : ConstructAndClose(session)

SpecFunctions == Init /\ [][NextFunctions]_vars

\* the entity's properties over the snapshots a refresh can store
NextEntity == \E e \in SnapshotRecords : RefreshReturns(e)

SpecEntity == Init /\ [][NextEntity]_vars

\* ------------------------------------------------------------------------
\* Properties
\* ------------------------------------------------------------------------
Ended(f) == f.outcome \notin {"none", "running"}
AuthenticatedOps == ClientOps \ {"login"}

\* C1: in one run of _async_update_data an AuthError from the client is
\* followed by exactly one login attempt; a run never logs in twice and never
\* makes more than three exchanges (two get-device-detail calls and one login)
C1_ExactlyOneRelogin ==
    \A t \in Tasks :
        /\ rf[t].logins <= 1
        /\ rf[t].details <= 2
        /\ rf[t].sawAuth <=> rf[t].logins = 1
        /\ Ended(rf[t]) /\ rf[t].sawAuth => rf[t].logins = 1

C1_Witness ==
    \E t \in Tasks : Ended(rf[t]) /\ rf[t].sawAuth /\ rf[t].logins = 1

\* C2: when get-device-detail fails with AuthError and the re-login returns a
\* token, the refresh ends with the stored token replaced by that token and
\* get-device-detail re-issued exactly once
C2_TokenReplacedAndCallReissued ==
    \A t \in Tasks :
        Ended(rf[t]) /\ rf[t].sawAuth /\ rf[t].loginExc = "none"
            => token = rf[t].loginToken /\ rf[t].details = 2

\* C3: when the re-login after an AuthError fails with AuthError or APIError,
\* the refresh ends with UpdateFailed and makes no further login or request
C3_FailedRetryIsUpdateFailed ==
    \A t \in Tasks :
        Ended(rf[t]) /\ rf[t].sawAuth /\ rf[t].loginExc \in {CosaAuthError, CosaAPIError}
            => rf[t].outcome = UpdateFailed /\ rf[t].logins = 1 /\ rf[t].details = 1

C5_BadCredentialCodeIsAuthError ==
    lastCall.op \in ClientOps /\ lastCall.outcome.net = "ok"
        /\ lastCall.outcome.status = 200 /\ lastCall.outcome.kind = "ok0_111"
        => lastCall.exc = CosaAuthError

\* C6: when the get-device-detail call of a refresh fails with a generic
\* CosaAPIError, the refresh ends with UpdateFailed, having made no login
\* attempt and no second call and having left the stored token as it was
C6_ApiErrorIsUpdateFailed ==
    \A t \in Tasks :
        rf[t].sawApi
            => /\ rf[t].outcome = UpdateFailed
               /\ rf[t].logins = 0
               /\ rf[t].details = 1
               /\ rf[t].loginExc = "unset"
               /\ token = rf[t].token0

C6_Witness ==
    \E t \in Tasks : rf[t].sawApi /\ rf[t].outcome = UpdateFailed /\ rf[t].logins = 0

\* C7: each of the five operations answers a timed-out exchange with the
\* generic CosaAPIError
C7_TimeoutIsApiError ==
    lastCall.op \in ClientOps /\ lastCall.outcome.net = "timeout"
        => lastCall.exc = CosaAPIError

\* a scheduled refresh that started after the last command had ended, ran
\* undisturbed by any other command, and has ended
RefreshedAfterCommand(kind, args) ==
    /\ cf.kind = kind
    /\ cf.args = args
    /\ pc["cmd"] = "idle"
    /\ rf["tick"].afterCmd
    /\ Ended(rf["tick"])

\* C8: with a faithful server, set_mode("manual", "frozen") followed by a
\* refresh leaves a snapshot whose option is "frozen"
C8_FrozenAfterSetMode ==
    faithful /\ RefreshedAfterCommand("set_mode", <<MODE_MANUAL, OPTION_FROZEN, None, None>>)
        => data.has /\ Get(data.endpoint, "option", None) = OPTION_FROZEN

\* the home setpoint of the snapshot, under its normalized or its vendor name
SnapshotHome ==
    IF ~data.has THEN None
    ELSE IF "target_temperatures" \in DOMAIN data.endpoint
    THEN data.endpoint["target_temperatures"]["home"]
    ELSE Get(data.endpoint, "homeTemperature", None)

\* C9: with a faithful server, set target temperatures (22, 16, 18, 20)
\* followed by a refresh leaves a snapshot whose home setpoint is 22
C9_HomeAfterSetTemperatures ==
    faithful /\ RefreshedAfterCommand("set_temperatures", <<"22", "16", "18", "20">>)
        => SnapshotHome = "22"

\* C10: a command requests a refresh exactly once when its mutating call has
\* succeeded, and the refresh has ended when the command returns; a command
\* whose call did not succeed requests none
C10_RefreshOnceAfterSuccess ==
    /\ cf.refreshes <= 1
    /\ cf.refreshes = 1 => cf.accepted
    /\ rf["cmd"].outcome # "none" => cf.accepted /\ cf.refreshes = 1
    /\ CommandEnded /\ cf.accepted
           => cf.refreshes = 1 /\ Ended(rf["cmd"]) /\ cf.outcome = "returned"
    /\ CommandEnded /\ ~cf.accepted => cf.refreshes = 0 /\ rf["cmd"].outcome = "none"

C10_Witness ==
    /\ cf.outcome = "returned"
    /\ cf.accepted
    /\ cf.refreshes = 1
    /\ Ended(rf["cmd"])

\* C11: at most one HTTP request of the client is in flight at any time
C11_AtMostOneRequestInFlight ==
    Cardinality({t \in Tasks : req[t] # NoRequest}) <= 1

\* C12: the stored token is never None and is the token given at setup or a
\* token string a login of the coordinator returned, and a re-login that
\* fails leaves the stored token as it was
LoginTokens == ({rf[t].loginToken : t \in Tasks} \cup {cf.loginToken}) \ {None}
FailedRelogin ==
    \/ \E t \in Tasks : /\ pc[t] = "relogin" /\ pc'[t] # "relogin"
                        /\ rf'[t].loginExc # "none"
    \/ /\ pc["cmd"] = "cmd_relogin" /\ pc'["cmd"] # "cmd_relogin"
       /\ cf'.loginExc # "none"
NormalizedFields ==
    {"temperature", "humidity", "target_temperature", "mode", "option",
     "is_connected", "combi_state", "target_temperatures"}
C13_SnapshotIsNormalized ==
    data.has =>
        /\ NormalizedFields \subseteq DOMAIN _endpoint
        /\ current_temperature = extract_endpoint_state(data.endpoint).temperature
        /\ target_temperature = extract_endpoint_state(data.endpoint).target_temperature

\* C14: a login response with HTTP 200 and without ok == 0 that holds a
\* non-empty token string T under exactly one supported field name, at top
\* level or under data, makes login return T, whichever name and place hold it
IsToken(v) == IsStr(v) /\ v # ""
HeldAt(d) == {k \in TokenKeys : k \in DOMAIN d /\ IsToken(d[k])}
HeldTokens(body) ==
    {body[k] : k \in HeldAt(body)}
    \cup (IF "data" \in DOMAIN body THEN {body.data[k] : k \in HeldAt(body.data)} ELSE {})
HoldersOf(body) ==
    Cardinality(HeldAt(body))
    + (IF "data" \in DOMAIN body THEN Cardinality(HeldAt(body.data)) ELSE 0)
SuccessfulLogin(r) == r.status = 200 /\ r.parse = "dict" /\ ~OkIsZero(r)
C14_SameTokenWhateverField ==
    (probe.fn = "login" /\ SuccessfulLogin(probe.r) /\ HoldersOf(probe.r.body) = 1) =>
        /\ probe.exc = "none"
        /\ \A T \in HeldTokens(probe.r.body) : probe.val = T
C14_Witness ==
    /\ probe.fn = "login" /\ SuccessfulLogin(probe.r)
    /\ "data" \in DOMAIN probe.r.body
    /\ HeldAt(probe.r.body.data) = {"access_token"}
    /\ HeldAt(probe.r.body) = {}
    /\ probe.val = FreshToken

\* the outcomes a login response may have when the statuses in examined are
\* the ones whose body is looked at
BadCredentials(r) ==
    OkIsZero(r) /\ "code" \in DOMAIN r.body /\ r.body["code"] = BadCredentialCode
LoginOutcomes(r, examined) ==
    IF r.status = 401 THEN {CosaAuthError}
    ELSE IF r.status \notin examined
    THEN IF BadCredentials(r) THEN {CosaAuthError, CosaAPIError} ELSE {CosaAPIError}
    ELSE IF r.parse \in {"error", "ctype"} THEN {CosaAPIError}
    ELSE IF OkIsZero(r) THEN IF BadCredentials(r) THEN {CosaAuthError} ELSE {CosaAPIError}
    ELSE IF r.parse # "dict" \/ HeldTokens(r.body) = {} THEN {CosaAPIError}
    ELSE {"none"}
LoginClassified(examined) ==
    probe.fn = "login" =>
        /\ probe.exc \in LoginOutcomes(probe.r, examined)
        /\ probe.exc = "none" => IsToken(probe.val) /\ probe.val \in HeldTokens(probe.r.body)

OkZeroKinds == {"ok0_111", "ok0_other", "ok0_nocode", "ok0_payload"}
OkZeroAt200(c) == c.outcome.net = "ok" /\ c.outcome.status = 200 /\ c.outcome.kind \in OkZeroKinds
C16_OkZeroNeverSucceeds ==
    (lastCall.op \in ClientOps /\ OkZeroAt200(lastCall)) =>
        lastCall.exc \in {CosaAuthError, CosaAPIError}
C16_Witness ==
    /\ lastCall.op = "set_target_temperatures"
    /\ OkZeroAt200(lastCall) /\ lastCall.outcome.kind = "ok0_payload"
    /\ lastCall.exc = CosaAPIError

\* C17: get_endpoints on an HTTP 200 response whose body is a JSON object
\* without ok == 0 returns the empty list when the body has no endpoints
\* field and the field's list when it has one
ObjectAt200(c) ==
    /\ c.outcome.net = "ok" /\ c.outcome.status = 200
    /\ ParseOf(c.outcome.kind) = "dict" /\ c.outcome.kind \notin OkZeroKinds
C17_EndpointsOrEmptyList ==
    (lastCall.op = "get_endpoints" /\ ObjectAt200(lastCall)) =>
        LET body == BodyOf(lastCall.outcome.kind, "getEndpoints")
        IN  /\ lastCall.exc = "none"
            /\ "endpoints" \in DOMAIN body => lastCall.val = body.endpoints
            /\ "endpoints" \notin DOMAIN body => lastCall.val = <<>>
C17_Witness ==
    /\ lastCall.op = "get_endpoints" /\ ObjectAt200(lastCall)
    /\ lastCall.outcome.kind = "ok_empty"
    /\ lastCall.exc = "none" /\ lastCall.val = <<>>

\* C18: normalizing a record that has the four setpoint fields gives exactly
\* their values as target_temperatures; normalizing a record that has none of
\* them gives home 20, away 15, sleep 18, custom 20
SetpointFields ==
    {"homeTemperature", "awayTemperature", "sleepTemperature", "customTemperature"}
Normalized == probe.fn = "extract_endpoint_state"
C18_SetpointsOrDefaults ==
    Normalized =>
        LET e == probe.endpoint
            tt == probe.out.target_temperatures
        IN  /\ SetpointFields \subseteq DOMAIN e =>
                   tt = [home |-> e.homeTemperature, away |-> e.awayTemperature,
                         sleep |-> e.sleepTemperature, custom |-> e.customTemperature]
            /\ SetpointFields \cap DOMAIN e = {} =>
                   tt = [home |-> "20", away |-> "15", sleep |-> "18", custom |-> "20"]
C18_Witness ==
    /\ Normalized /\ SetpointFields \subseteq DOMAIN probe.endpoint
    /\ probe.out.target_temperatures =
           [home |-> "21", away |-> "16", sleep |-> "19", custom |-> "22"]

\* C19: the normalized target_temperature is the record's targetTemperature
\* when the record has one (not null); otherwise it is the setpoint named by
\* the current option, and 20 when the option names no setpoint
SetpointNames == {OPTION_HOME, OPTION_AWAY, OPTION_SLEEP, OPTION_CUSTOM}
HasExplicitTarget(e) == "targetTemperature" \in DOMAIN e /\ e.targetTemperature # None
C19_ExplicitTargetElseSetpoint ==
    Normalized =>
        LET e == probe.endpoint
            out == probe.out
        IN  out.target_temperature =
                IF HasExplicitTarget(e) THEN e.targetTemperature
                ELSE IF out.option \in SetpointNames THEN out.target_temperatures[out.option]
                ELSE "20"
C19_Witness ==
    /\ Normalized /\ ~HasExplicitTarget(probe.endpoint)
    /\ SetpointFields \subseteq DOMAIN probe.endpoint
    /\ probe.out.option = OPTION_SLEEP
    /\ probe.out.target_temperature = "19"

\* C20: a temperature change issued by the entity sends one
\* set_target_temperatures request whose four values are the new temperature
\* for the setpoint the current option selects and, for the other three, the
\* setpoints the entity holds for the device
HeldSetpoints ==
    [home |-> Get(_endpoint, "homeTemperature", "21"),
     away |-> Get(_endpoint, "awayTemperature", "15"),
     sleep |-> Get(_endpoint, "sleepTemperature", "19"),
     custom |-> Get(_endpoint, "customTemperature", "20")]
GroupSent(rq, temperature) ==
    /\ rq.path = "setTargetTemperatures"
    /\ \A k \in SetpointNames :
           rq.json.targetTemperatures[k] =
               IF k = Get(_endpoint, "option", OPTION_HOME) THEN temperature
               ELSE HeldSetpoints[k]
C20_SetpointsSentAsGroup ==
    [][\A temperature \in EntityTemperatures :
           async_set_temperature(temperature) => GroupSent(req'["cmd"], temperature)]_vars

\* C21: the set_mode request has an option field exactly when the caller
\* gave an option, holding that option; a set_mode that does not raise
\* returns True and nothing else
C21_OptionOnlyWhenGiven ==
    lastCall.op = "set_mode" =>
        LET option == lastCall.args[2]
            payload == lastCall.req.json
        IN  /\ payload.mode = lastCall.args[1]
            /\ ("option" \in DOMAIN payload) <=> (option # None)
            /\ option # None => payload.option = option
            /\ lastCall.exc = "none" => lastCall.val = TRUE
C21_Witness ==
    /\ lastCall.op = "set_mode" /\ lastCall.args[2] = None
    /\ "option" \notin DOMAIN lastCall.req.json
    /\ lastCall.exc = "none"
    /\ lastCall.val = TRUE

\* C22: closing a client never closes a session its caller passed in, does
\* close the session of a client that was given none and made its own, and
\* the client holds an ownership flag that tells the two cases apart
C22_CloseOnlyOwnSession ==
    probe.fn = "close" =>
        /\ "_own_session" \in probe.attrs
        /\ probe.exc = "none"
        /\ "host" \notin probe.closed
        /\ probe.session = Absent => probe.closed # {}

\* the mode and the option of the snapshot the entity reads, None when absent
SnapshotMode == Get(_endpoint, "mode", None)
SnapshotOption == Get(_endpoint, "option", None)

\* C23: the reported preset is "schedule" whenever the mode is schedule and
\* "auto" whenever it is auto, whatever the option; it is the option under
\* manual mode, and under no other mode is an option the snapshot holds
\* reported as the preset
C23_OptionOnlyUnderManual ==
    /\ SnapshotMode = MODE_SCHEDULE => preset_mode = PRESET_SCHEDULE
    /\ SnapshotMode = MODE_AUTO => preset_mode = PRESET_AUTO
    /\ SnapshotMode = MODE_MANUAL => preset_mode = SnapshotOption
    /\ (SnapshotOption # None /\ preset_mode = SnapshotOption) => SnapshotMode = MODE_MANUAL

\* C23 as amended: "schedule" under schedule, "auto" under auto, and the
\* option (None when absent) under every other mode: manual, absent or
\* not recognised
C23_OptionUnlessAutoOrSchedule ==
    /\ SnapshotMode = MODE_SCHEDULE => preset_mode = PRESET_SCHEDULE
    /\ SnapshotMode = MODE_AUTO => preset_mode = PRESET_AUTO
    /\ SnapshotMode \notin {MODE_SCHEDULE, MODE_AUTO} => preset_mode = SnapshotOption
C23_Witness ==
    /\ data.has /\ SnapshotMode = MODE_SCHEDULE /\ SnapshotOption = OPTION_HOME
    /\ preset_mode = PRESET_SCHEDULE

\* C24: the normalized name, is_connected and combi_state are always
\* present: the record's value when the record has the field, and the fixed
\* defaults "COSA Termostat", False and "off" when it has not
C24_DefaultsForMissingFields ==
    Normalized =>
        LET e == probe.endpoint
            out == probe.out
        IN  /\ {"name", "is_connected", "combi_state"} \subseteq DOMAIN out
            /\ out.name = IF "name" \in DOMAIN e THEN e.name ELSE "COSA Termostat"
            /\ out.is_connected = IF "isConnected" \in DOMAIN e THEN e.isConnected ELSE "False"
            /\ out.combi_state = IF "combiState" \in DOMAIN e THEN e.combiState ELSE "off"
C24_Witness ==
    /\ Normalized
    /\ {"name", "isConnected", "combiState"} \cap DOMAIN probe.endpoint = {}
    /\ probe.out.name = "COSA Termostat"
    /\ probe.out.is_connected = "False"
    /\ probe.out.combi_state = "off"

\* C25: one coordinator command makes at most one login attempt and issues
\* its mutating call at most twice, the second time only after its login
C25_CommandLogsInOnce ==
    /\ cf.logins <= 1
    /\ cf.calls <= 2
    /\ cf.calls = 2 => cf.logins = 1
C25_Witness ==
    /\ Ended(cf) /\ cf.kind = "set_temperatures"
    /\ cf.logins = 1 /\ cf.loginExc = CosaAuthError
    /\ cf.calls = 1

\* C26: every run of the coordinator's refresh ends by returning a snapshot
\* or by raising UpdateFailed, whatever the server answers and whether or not
\* a place_id is configured
C26_RefreshReturnsOrUpdateFailed ==
    \A t \in Tasks : Ended(rf[t]) => rf[t].outcome \in {"returned", UpdateFailed}

\* C27: every authenticated request of the coordinator that is in flight has
\* the coordinator's token in its authtoken header and the configured device
\* id as its endpoint field, and a command's request has the mode and option,
\* or the four setpoints, the command was called with in their own fields
AuthenticatedPaths == {"getEndpoint", "setMode", "setTargetTemperatures"}
C27_RequestsCarryTokenAndDevice ==
    \A t \in Tasks :
        req[t].path \in AuthenticatedPaths =>
            /\ req[t].headers.authtoken = token
            /\ req[t].json.endpoint = ENDPOINT_ID
            /\ req[t].path = "setMode" =>
                   /\ req[t].json.mode = cf.args[1]
                   /\ Get(req[t].json, "option", None) = cf.args[2]
            /\ req[t].path = "setTargetTemperatures" =>
                   req[t].json.targetTemperatures =
                       [home |-> cf.args[1], away |-> cf.args[2],
                        sleep |-> cf.args[3], custom |-> cf.args[4]]

\* C28: a coordinator command returns normally only if its mutating call
\* was accepted; a command whose call failed with AuthError and whose login
\* failed, or whose call failed with APIError, ends with an error
C28_ReturnsOnlyIfAccepted ==
    Ended(cf) =>
        /\ cf.outcome = "returned" => cf.accepted
        /\ (cf.logins = 1 /\ cf.loginExc # "none") => cf.outcome # "returned"
C28_Witness ==
    /\ Ended(cf) /\ cf.kind = "set_mode" /\ ~cf.accepted
    /\ cf.logins = 1 /\ cf.loginExc = CosaAPIError
    /\ cf.outcome = CosaAPIError

\* C29: the preset the entity reports is None or one of the declared presets
\* home, sleep, away, custom, auto, schedule, also for a device that is off
\* (manual mode with option frozen)
C29_PresetIsDeclared ==
    preset_mode = None \/ preset_mode \in _attr_preset_modes

\* C30: the entity reports OFF exactly when the snapshot's mode is manual and
\* its option is frozen, and HEAT for every other snapshot, an empty one
\* included
C30_OffIffManualFrozen ==
    /\ hvac_mode \in {HVACMode_OFF, HVACMode_HEAT}
    /\ hvac_mode = HVACMode_OFF <=>
           (data.has /\ SnapshotMode = MODE_MANUAL /\ SnapshotOption = OPTION_FROZEN)
C30_Witness ==
    /\ data.has /\ SnapshotMode = MODE_MANUAL /\ SnapshotOption = OPTION_FROZEN
    /\ hvac_mode = HVACMode_OFF

\* C31: when the snapshot has none of the per-option setpoint fields, the
\* values the entity hands on for the setpoints it does not change are the
\* normalization defaults home 20, away 15, sleep 18, custom 20
ChangedSetpoint ==
    LET option == Get(_endpoint, "option", OPTION_HOME)
    IN  IF option \in SetpointNames THEN option ELSE OPTION_HOME
HandedOn(args) == [home |-> args[1], away |-> args[2], sleep |-> args[3], custom |-> args[4]]
C31_EntityDefaultsAreNormalizationDefaults ==
    [][\A temperature \in EntityTemperatures :
           (async_set_temperature(temperature) /\ SetpointFields \cap DOMAIN _endpoint = {}) =>
               \A k \in SetpointNames \ {ChangedSetpoint} :
                   HandedOn(cf'.args)[k] = extract_endpoint_state(_endpoint).target_temperatures[k]]_vars

====
